---- MODULE Spec2Model ----
(***************************************************************************)
(* Render-graph frame executor of src/src/task.rs: the graph builder       *)
(* (add, complete), RenderGraph::render as a sequence of steps taken under *)
(* the graph mutex, the access model (ImageAccess / BufferAccess and their *)
(* mappings to stage mask, permission and layout), and the GPU queue that  *)
(* retires submissions and signals their fences.                           *)
(***************************************************************************)
EXTENDS Integers, Sequences, FiniteSets, TLC

\* ------------------------------------------------------------------ bounds
\* Number of frame slots. The value is set in crate::device, which is not
\* part of the modelled source; the model treats it as a parameter.
MAX_FRAMES_IN_FLIGHT == 2
\* Longest task list the builder is given.
MaxTasks == 2
\* Most resource descriptors in the task lists the builder is given.
MaxDescriptors == 2
\* Largest value the monotonic clock is followed to.
MaxClock == 1

Slots == 0 .. (MAX_FRAMES_IN_FLIGHT - 1)
Callers == {"t1", "t2"}
BufferHandles == {"X", "Z"}
ImageHandles == {"Y"}

\* ------------------------------------------------------------ access model
ImageAccess ==
    {"None", "ShaderReadOnly", "VertexShaderReadOnly", "FragmentShaderReadOnly",
     "ComputeShaderReadOnly", "ShaderWriteOnly", "VertexShaderWriteOnly",
     "FragmentShaderWriteOnly", "ComputeShaderWriteOnly", "ShaderReadWrite",
     "VertexShaderReadWrite", "FragmentShaderReadWrite", "ComputeShaderReadWrite",
     "TransferRead", "TransferWrite", "ColorAttachment", "DepthAttachment",
     "DepthAttachmentReadOnly", "DepthStencilAttachment", "Present"}

BufferAccess ==
    {"None", "ShaderReadOnly", "VertexShaderReadOnly", "FragmentShaderReadOnly",
     "ComputeShaderReadOnly", "ShaderWriteOnly", "VertexShaderWriteOnly",
     "FragmentShaderWriteOnly", "ComputeShaderWriteOnly", "ShaderReadWrite",
     "VertexShaderReadWrite", "FragmentShaderReadWrite", "ComputeShaderReadWrite",
     "TransferRead", "TransferWrite", "HostTransferRead", "HostTransferWrite"}

\* #[default] of both enumerations.
DefaultAccess == "None"

\* impl From<ImageAccess> for PipelineStage; a mask is the set of its flags.
ImageAccessToPipelineStage(access) ==
    CASE access = "None" -> {}
      [] access = "Present" -> {"ALL_COMMANDS"}
      [] access \in {"TransferWrite", "TransferRead"} -> {"TRANSFER"}
      [] access \in {"DepthAttachmentReadOnly", "DepthAttachment",
                     "DepthStencilAttachment"} ->
            {"EARLY_FRAGMENT_TESTS", "LATE_FRAGMENT_TESTS"}
      [] access \in {"ShaderReadWrite", "ShaderWriteOnly", "ShaderReadOnly"} ->
            {"ALL_GRAPHICS", "COMPUTE_SHADER"}
      [] access \in {"VertexShaderReadWrite", "VertexShaderWriteOnly",
                     "VertexShaderReadOnly"} -> {"VERTEX_SHADER"}
      [] access \in {"FragmentShaderReadWrite", "FragmentShaderWriteOnly",
                     "FragmentShaderReadOnly"} -> {"FRAGMENT_SHADER"}
      [] access \in {"ComputeShaderReadWrite", "ComputeShaderWriteOnly",
                     "ComputeShaderReadOnly"} -> {"COMPUTE_SHADER"}
      [] access = "ColorAttachment" -> {"COLOR_ATTACHMENT_OUTPUT"}

\* impl From<ImageAccess> for ImageLayout
ImageAccessToImageLayout(access) ==
    CASE access = "None" -> "Undefined"
      [] access = "Present" -> "Present"
      [] access = "TransferWrite" -> "TransferDstOptimal"
      [] access = "TransferRead" -> "TransferSrcOptimal"
      [] access = "DepthStencilAttachment" -> "AttachmentOptimal"
      [] access = "DepthAttachment" -> "AttachmentOptimal"
      [] access \in {"DepthAttachmentReadOnly", "VertexShaderReadOnly",
                     "FragmentShaderReadOnly", "ComputeShaderReadOnly",
                     "ShaderReadOnly"} -> "ReadOnlyOptimal"
      [] access \in {"ShaderWriteOnly", "VertexShaderWriteOnly",
                     "FragmentShaderWriteOnly", "ComputeShaderWriteOnly",
                     "VertexShaderReadWrite", "FragmentShaderReadWrite",
                     "ComputeShaderReadWrite", "ShaderReadWrite"} -> "General"
      [] access = "ColorAttachment" -> "AttachmentOptimal"

\* impl From<ImageAccess> for Access; a permission is the set of its flags.
ImageAccessToAccess(access) ==
    CASE access = "None" -> {}
      [] access \in {"Present", "TransferRead", "DepthAttachmentReadOnly",
                     "ShaderReadOnly", "VertexShaderReadOnly",
                     "FragmentShaderReadOnly", "ComputeShaderReadOnly"} -> {"READ"}
      [] access \in {"TransferWrite", "ShaderWriteOnly", "VertexShaderWriteOnly",
                     "FragmentShaderWriteOnly", "ComputeShaderWriteOnly"} -> {"WRITE"}
      [] access \in {"ColorAttachment", "DepthAttachment", "DepthStencilAttachment",
                     "ShaderReadWrite", "VertexShaderReadWrite",
                     "FragmentShaderReadWrite", "ComputeShaderReadWrite"} ->
            {"READ", "WRITE"}

\* impl From<BufferAccess> for PipelineStage
BufferAccessToPipelineStage(access) ==
    CASE access = "None" -> {}
      [] access = "ShaderReadOnly" -> {"ALL_GRAPHICS", "COMPUTE_SHADER"}
      [] access = "VertexShaderReadOnly" -> {"VERTEX_SHADER"}
      [] access = "FragmentShaderReadOnly" -> {"FRAGMENT_SHADER"}
      [] access = "ComputeShaderReadOnly" -> {"COMPUTE_SHADER"}
      [] access = "ShaderWriteOnly" -> {"ALL_GRAPHICS", "COMPUTE_SHADER"}
      [] access = "VertexShaderWriteOnly" -> {"VERTEX_SHADER"}
      [] access = "FragmentShaderWriteOnly" -> {"FRAGMENT_SHADER"}
      [] access = "ComputeShaderWriteOnly" -> {"COMPUTE_SHADER"}
      [] access = "ShaderReadWrite" -> {"ALL_GRAPHICS", "COMPUTE_SHADER"}
      [] access = "VertexShaderReadWrite" -> {"VERTEX_SHADER"}
      [] access = "FragmentShaderReadWrite" -> {"FRAGMENT_SHADER"}
      [] access = "ComputeShaderReadWrite" -> {"COMPUTE_SHADER"}
      [] access = "TransferRead" -> {"TRANSFER"}
      [] access = "TransferWrite" -> {"TRANSFER"}
      [] access = "HostTransferRead" -> {"HOST"}
      [] access = "HostTransferWrite" -> {"HOST"}

\* impl From<BufferAccess> for Access
BufferAccessToAccess(access) ==
    CASE access = "None" -> {}
      [] access \in {"HostTransferRead", "TransferRead", "ShaderReadOnly",
                     "VertexShaderReadOnly", "FragmentShaderReadOnly",
                     "ComputeShaderReadOnly"} -> {"READ"}
      [] access \in {"HostTransferWrite", "TransferWrite", "ShaderWriteOnly",
                     "VertexShaderWriteOnly", "FragmentShaderWriteOnly",
                     "ComputeShaderWriteOnly"} -> {"WRITE"}
      [] access \in {"ShaderReadWrite", "VertexShaderReadWrite",
                     "FragmentShaderReadWrite", "ComputeShaderReadWrite"} ->
            {"READ", "WRITE"}

\* ------------------------------------------------------- resource declaration
\* Resource::Buffer(call, access) / Resource::Image(call, access, aspect); the
\* accessor `call` is run at resolve time, so a descriptor holds kind and access.
BufferDescriptor(access) == [kind |-> "Buffer", access |-> access]
ImageDescriptor(access) == [kind |-> "Image", access |-> access, aspect |-> "COLOR"]

\* The descriptors the builder's tasks are made of.
Descriptors ==
    {BufferDescriptor("ComputeShaderWriteOnly"), BufferDescriptor("ComputeShaderReadOnly"),
     ImageDescriptor("ColorAttachment"), ImageDescriptor("ComputeShaderReadOnly")}

RECURSIVE SeqsUpTo(_, _)
SeqsUpTo(S, n) ==
    IF n = 0 THEN {<<>>}
    ELSE LET shorter == SeqsUpTo(S, n - 1)
         IN  shorter \cup {Append(r, d) : r \in {x \in shorter : Len(x) = n - 1}, d \in S}

ResourceLists == SeqsUpTo(Descriptors, MaxDescriptors)

RECURSIVE TotalDescriptors(_)
TotalDescriptors(ns) ==
    IF ns = <<>> THEN 0 ELSE Len(Head(ns).resources) + TotalDescriptors(Tail(ns))

\* Resource::resolve: the accessor yields a handle of the descriptor's kind.
resolve(resource, handle) ==
    IF resource.kind = "Buffer"
    THEN [kind |-> "Buffer", handle |-> handle, access |-> resource.access]
    ELSE [kind |-> "Image", handle |-> handle, access |-> resource.access,
          aspect |-> resource.aspect]

\* resources.buffers.get(buffer).unwrap().size, for the live buffers.
BufferSize(buffer) == IF buffer = "X" THEN 64 ELSE 256

\* ------------------------------------------------------------ hazard tables
\* HashMap::new()
NewHashMap == [h \in {} |-> DefaultAccess]

\* HashMap::entry(key).or_default(), read
EntryOrDefault(map, key) == IF key \in DOMAIN map THEN map[key] ELSE DefaultAccess

\* HashMap::insert(key, value)
Insert(map, key, value) ==
    [h \in (DOMAIN map) \cup {key} |-> IF h = key THEN value ELSE map[h]]

\* The naive barrier of the buffer qualifier at index i (0-based).
BufferBarrier(i, buffer, src, dst) ==
    [src_stage |-> BufferAccessToPipelineStage(src),
     dst_stage |-> BufferAccessToPipelineStage(dst),
     barriers |-> << [kind |-> "Buffer", index |-> i, offset |-> 0,
                      size |-> BufferSize(buffer),
                      src_access |-> BufferAccessToAccess(src),
                      dst_access |-> BufferAccessToAccess(dst)] >>]

\* The naive barrier of the image qualifier at index i (0-based).
ImageBarrier(i, src, dst, image_aspect) ==
    [src_stage |-> ImageAccessToPipelineStage(src),
     dst_stage |-> ImageAccessToPipelineStage(dst),
     barriers |-> << [kind |-> "Image", index |-> i,
                      old_layout |-> ImageAccessToImageLayout(src),
                      new_layout |-> ImageAccessToImageLayout(dst),
                      src_access |-> ImageAccessToAccess(src),
                      dst_access |-> ImageAccessToAccess(dst),
                      image_aspect |-> image_aspect] >>]

\* Mutant of DeriveOne: an entry already in the table is kept.
DeriveOneKeepFirst(st, q, i) ==
    IF q.kind = "Buffer"
    THEN LET src == EntryOrDefault(st.last_buffer_access, q.handle)
         IN  [naive_barriers |-> Append(st.naive_barriers,
                                        BufferBarrier(i, q.handle, src, q.access)),
              last_image_access |-> st.last_image_access,
              last_buffer_access |->
                 IF q.handle \in DOMAIN st.last_buffer_access
                 THEN st.last_buffer_access
                 ELSE Insert(st.last_buffer_access, q.handle, q.access)]
    ELSE LET src == EntryOrDefault(st.last_image_access, q.handle)
         IN  [naive_barriers |-> Append(st.naive_barriers,
                                        ImageBarrier(i, src, q.access, q.aspect)),
              last_image_access |->
                 IF q.handle \in DOMAIN st.last_image_access
                 THEN st.last_image_access
                 ELSE Insert(st.last_image_access, q.handle, q.access),
              last_buffer_access |-> st.last_buffer_access]

\* Mutant of DeriveOne: the entry is set before the barrier is derived from it.
DeriveOneUpdateFirst(st, q, i) ==
    IF q.kind = "Buffer"
    THEN [naive_barriers |-> Append(st.naive_barriers,
                                    BufferBarrier(i, q.handle, q.access, q.access)),
          last_image_access |-> st.last_image_access,
          last_buffer_access |-> Insert(st.last_buffer_access, q.handle, q.access)]
    ELSE [naive_barriers |-> Append(st.naive_barriers,
                                    ImageBarrier(i, q.access, q.access, q.aspect)),
          last_image_access |-> Insert(st.last_image_access, q.handle, q.access),
          last_buffer_access |-> st.last_buffer_access]

\* One iteration of the qualifier loop: the barrier is derived from the table's
\* entry, then the entry is set to the qualifier's access.
DeriveOne(st, q, i) ==
    IF q.kind = "Buffer"
    THEN LET src == EntryOrDefault(st.last_buffer_access, q.handle)
         IN  [naive_barriers |-> Append(st.naive_barriers,
                                        BufferBarrier(i, q.handle, src, q.access)),
              last_image_access |-> st.last_image_access,
              last_buffer_access |-> Insert(st.last_buffer_access, q.handle, q.access)]
    ELSE LET src == EntryOrDefault(st.last_image_access, q.handle)
         IN  [naive_barriers |-> Append(st.naive_barriers,
                                        ImageBarrier(i, src, q.access, q.aspect)),
              last_image_access |-> Insert(st.last_image_access, q.handle, q.access),
              last_buffer_access |-> st.last_buffer_access]

\* for (i, qualifier) in qualifiers.iter().enumerate() { ... }
RECURSIVE DeriveFrom(_, _, _)
DeriveFrom(quals, n, st) ==
    IF n > Len(quals) THEN st
    ELSE DeriveFrom(quals, n + 1, DeriveOne(st, quals[n], n - 1))

DeriveBarriers(quals, images, buffers) ==
    DeriveFrom(quals, 1, [naive_barriers |-> <<>>, last_image_access |-> images,
                          last_buffer_access |-> buffers])

\* Mutant of MergeOne: a barrier whose pair is already a key replaces the batch.
MergeOneOverwrite(smart, new_barrier) ==
    LET key == <<new_barrier.src_stage, new_barrier.dst_stage>>
    IN  [x \in (DOMAIN smart) \cup {key} |-> IF x = key THEN new_barrier ELSE smart[x]]

\* One iteration of the merge loop over smart_barriers, a map from the pair
\* (src_stage, dst_stage) to the batch.
MergeOne(smart, new_barrier) ==
    LET key == <<new_barrier.src_stage, new_barrier.dst_stage>>
    IN  IF key \in DOMAIN smart
        THEN [x \in DOMAIN smart |->
                IF x = key
                THEN [smart[x] EXCEPT !.barriers = smart[x].barriers \o new_barrier.barriers]
                ELSE smart[x]]
        ELSE [x \in (DOMAIN smart) \cup {key} |->
                IF x = key THEN new_barrier ELSE smart[x]]

\* for new_barrier in naive_barriers { ... }
RECURSIVE MergeFrom(_, _, _)
MergeFrom(naive, n, smart) ==
    IF n > Len(naive) THEN smart
    ELSE MergeFrom(naive, n + 1, MergeOne(smart, naive[n]))

NoBatches == [x \in {} |-> [src_stage |-> {}, dst_stage |-> {}, barriers |-> <<>>]]

RECURSIVE AllSubBarriers(_)
AllSubBarriers(naive) ==
    IF naive = <<>> THEN <<>> ELSE Head(naive).barriers \o AllSubBarriers(Tail(naive))

\* Mutant of MergeBarriers: every barrier of the node goes into one batch,
\* under the pair of the first.
MergeIntoFirst(naive) ==
    IF naive = <<>> THEN NoBatches
    ELSE [x \in {<<naive[1].src_stage, naive[1].dst_stage>>} |->
            [src_stage |-> naive[1].src_stage, dst_stage |-> naive[1].dst_stage,
             barriers |-> AllSubBarriers(naive)]]

MergeBarriers(naive) == MergeFrom(naive, 1, NoBatches)

\* The orders in which `for (_, barrier) in smart_barriers` may visit the map.
IterationOrders(smart) ==
    LET keys == DOMAIN smart
        n == Cardinality(keys)
    IN  {p \in [1 .. n -> keys] : \A i, j \in 1 .. n : i # j => p[i] # p[j]}

\* -------------------------------------------------------------------- state
VARIABLES
    phase,                  \* "building" | "ready" (complete returned Ok) | "failed"
    nodes,                  \* RenderGraphBuilder.nodes, then RenderGraphModify.nodes
    fences,                 \* RenderGraphInner.fences: slot -> signaled
    last_instant,           \* RenderGraphModify.last_instant
    current_instant,        \* RenderGraphModify.current_instant
    modify,                 \* the graph mutex: its holder, or "free"
    poisoned,               \* a holder of the graph mutex panicked
    current_frame,          \* swapchain.current_frame
    allow_acquisition,      \* swapchain.allow_acquisition
    last_acquisition_index, \* swapchain.last_acquisition_index: "None" | "Some"
    inflight,               \* the queue: slots of the submissions not yet completed
    pc,                     \* caller -> its position in render()
    frame,                  \* render's local current_frame
    submit,                 \* render's local submit is Some
    present,                \* render's local present is Some
    node,                   \* index (from 1) of the node the loop is at
    qualifiers,             \* the node's resolved qualifiers
    naive_barriers,         \* the node's barriers, one per qualifier
    smart_barriers,         \* the node's merged batches
    last_image_access,      \* hazard table of images
    last_buffer_access,     \* hazard table of buffers
    log,                    \* what the call in progress has done so far, in order
    used,                   \* history: the slots whose fence some call has reset
    device_resources        \* DeviceInner.resources, a mutex: its holder, or "free"

graphVars == <<phase, nodes, fences, last_instant, current_instant>>
lockVars == <<modify, poisoned>>
swapchainVars == <<current_frame, allow_acquisition, last_acquisition_index>>
tableVars == <<last_image_access, last_buffer_access>>
localVars == <<frame, submit, present, node, qualifiers, naive_barriers, smart_barriers>>
vars == <<graphVars, lockVars, swapchainVars, inflight, pc, localVars, tableVars, log, used,
          device_resources>>

\* Outcomes of one invocation of a task body: what it asked of the recorder
\* (submit, present), whether it acquired a swapchain image, and its result.
TaskOutcomes ==
    [submit : BOOLEAN, present : BOOLEAN, acquire : BOOLEAN, result : {"Ok", "Err"}]

\* Outcomes of complete()'s calls into the device.
CompleteOutcomes == {"Ok", "AllocateCommandBuffersFailed", "CreateFenceFailed"}

Init ==
    /\ phase = "building"
    /\ nodes = <<>>
    /\ fences = <<>>
    /\ last_instant = 0
    /\ current_instant = 0
    /\ modify = "free"
    /\ poisoned = FALSE
    /\ current_frame = 0
    /\ allow_acquisition = TRUE
    /\ last_acquisition_index = "None"
    /\ inflight = <<>>
    /\ pc = [t \in Callers |-> "idle"]
    /\ frame = 0
    /\ submit = FALSE
    /\ present = FALSE
    /\ node = 0
    /\ qualifiers = <<>>
    /\ naive_barriers = <<>>
    /\ smart_barriers = NoBatches
    /\ last_image_access = NewHashMap
    /\ last_buffer_access = NewHashMap
    /\ log = <<>>
    /\ used = {}
    /\ device_resources = "free"

\* ------------------------------------------------------------------ builder
\* RenderGraphBuilder::add
add(resources) ==
    /\ phase = "building"
    /\ Len(nodes) < MaxTasks
    /\ TotalDescriptors(nodes) + Len(resources) <= MaxDescriptors
    /\ nodes' = Append(nodes, [resources |-> resources])
    /\ UNCHANGED <<device_resources, used, phase, fences, last_instant, current_instant, lockVars,
                   swapchainVars, inflight, pc, localVars, tableVars, log>>

\* Mutant of complete: the fences are created unsignaled.
completeUnsignaled(outcome, now) ==
    /\ phase = "building"
    /\ IF outcome = "Ok"
       THEN /\ phase' = "ready"
            /\ fences' = [s \in Slots |-> FALSE]
            /\ current_instant' = now
            /\ last_instant' = now
       ELSE /\ phase' = "failed"
            /\ UNCHANGED <<fences, last_instant, current_instant>>
    /\ UNCHANGED <<device_resources, used, nodes, lockVars, swapchainVars, inflight, pc, localVars,
                   tableVars, log>>

\* RenderGraphBuilder::complete: the command buffers, then one signaled fence per
\* slot, then the instant; a failed allocation or fence creation returns
\* Error::Creation and no graph.
complete(outcome, now) ==
    /\ phase = "building"
    /\ IF outcome = "Ok"
       THEN /\ phase' = "ready"
            /\ fences' = [s \in Slots |-> TRUE]
            /\ current_instant' = now
            /\ last_instant' = now
       ELSE /\ phase' = "failed"
            /\ UNCHANGED <<fences, last_instant, current_instant>>
    /\ UNCHANGED <<device_resources, used, nodes, lockVars, swapchainVars, inflight, pc, localVars,
                   tableVars, log>>

\* RenderGraph::frame_time
frame_time == current_instant - last_instant

\* ------------------------------------------------------------------- render
\* The locals of a call that has ended.
DropLocals ==
    /\ frame' = 0
    /\ submit' = FALSE
    /\ present' = FALSE
    /\ node' = 0
    /\ qualifiers' = <<>>
    /\ naive_barriers' = <<>>
    /\ smart_barriers' = NoBatches
    /\ log' = <<>>

\* A panic inside render(): the guard of the graph mutex is dropped while
\* unwinding, which poisons it.
Panic(t) ==
    /\ pc' = [pc EXCEPT ![t] = "panicked"]
    /\ modify' = "free"
    /\ poisoned' = TRUE
    /\ DropLocals

\* Mutant of Lock: the graph is entered without waiting for its mutex.
LockUnguarded(t) ==
    /\ phase = "ready"
    /\ pc[t] = "idle"
    /\ IF poisoned
       THEN /\ pc' = [pc EXCEPT ![t] = "panicked"]
            /\ UNCHANGED modify
       ELSE /\ modify' = t
            /\ pc' = [pc EXCEPT ![t] = "swapchain"]
    /\ UNCHANGED <<device_resources, used, graphVars, poisoned, swapchainVars, inflight, localVars,
                   tableVars, log>>

\* let mut modify = modify.lock().unwrap(); the unwrap panics when an earlier
\* holder of the mutex panicked.
Lock(t) ==
    /\ phase = "ready"
    /\ pc[t] = "idle"
    /\ modify = "free"
    /\ IF poisoned
       THEN /\ pc' = [pc EXCEPT ![t] = "panicked"]
            /\ UNCHANGED modify
       ELSE /\ modify' = t
            /\ pc' = [pc EXCEPT ![t] = "swapchain"]
    /\ UNCHANGED <<device_resources, used, graphVars, poisoned, swapchainVars, inflight, localVars,
                   tableVars, log>>

\* The call of t is at a block of render() that takes the mutex of the device's
\* resource table: the swapchain read, the size lookups of a node with a buffer
\* qualifier, the submit block, the present block, the rotation.
NeedsResources(t) ==
    \/ pc[t] \in {"swapchain", "rotate"}
    \/ pc[t] = "derive" /\ \E i \in DOMAIN qualifiers : qualifiers[i].kind = "Buffer"
    \/ pc[t] = "submit" /\ submit
    \/ pc[t] = "present" /\ present

\* The call of t is at the address-table pass, which a build with the feature
\* "bindless" runs after begin_command_buffer: it snapshots the resource table
\* under the table's mutex and drops the guard before it copies.
Bindless(t) == pc[t] = "begin"

\* let resources = resources.lock().unwrap(); at the head of such a block.
LockResources(t) ==
    /\ NeedsResources(t) \/ Bindless(t)
    /\ device_resources = "free"
    /\ device_resources' = t
    /\ UNCHANGED <<graphVars, lockVars, swapchainVars, inflight, pc, localVars,
                   tableVars, log, used>>

\* The body of a block runs with the guard its head took, if it took one.
InBlock(t) == device_resources = (IF NeedsResources(t) THEN t ELSE "free")

\* let (swapchain_handle, current_frame) = { ... }; the guard is dropped at the
\* end of the block.
ReadSwapchain(t) ==
    /\ pc[t] = "swapchain"
    /\ InBlock(t)
    /\ frame' = current_frame
    /\ device_resources' = "free"
    /\ pc' = [pc EXCEPT ![t] = "fence"]
    /\ UNCHANGED <<used, graphVars, lockVars, swapchainVars, inflight, submit, present,
                   node, qualifiers, naive_barriers, smart_barriers, tableVars, log>>

\* Mutant of FenceTimeout: the wait never reports TIMEOUT.
FenceTimeoutNever(slot) == FALSE

\* wait_for_fences(&[fences[current_frame]], true, 0) is Err(TIMEOUT)
FenceTimeout(slot) == ~fences[slot]

\* Mutant of WaitFence: the instants are taken before the wait.
WaitFenceInstantsFirst(t, now) ==
    /\ pc[t] = "fence"
    /\ last_instant' = current_instant
    /\ current_instant' = now
    /\ IF FenceTimeout(frame)
       THEN /\ pc' = [pc EXCEPT ![t] = "idle"]
            /\ modify' = "free"
            /\ UNCHANGED <<fences, frame, log, used>>
       ELSE /\ fences' = [fences EXCEPT ![frame] = FALSE]
            /\ log' = Append(log, [op |-> "reset_fences", slot |-> frame])
            /\ used' = used \cup {frame}
            /\ pc' = [pc EXCEPT ![t] = "begin"]
            /\ UNCHANGED <<modify, frame>>
    /\ UNCHANGED <<device_resources, phase, nodes, poisoned, swapchainVars, inflight,
                   submit, present,
                   node, qualifiers, naive_barriers, smart_barriers, tableVars>>

\* Mutant of WaitFence: last_instant is not moved to the previous instant.
WaitFenceKeepsLastInstant(t, now) ==
    /\ pc[t] = "fence"
    /\ IF FenceTimeout(frame)
       THEN /\ pc' = [pc EXCEPT ![t] = "idle"]
            /\ modify' = "free"
            /\ UNCHANGED <<fences, last_instant, current_instant, frame, log, used>>
       ELSE /\ last_instant' = last_instant
            /\ current_instant' = now
            /\ fences' = [fences EXCEPT ![frame] = FALSE]
            /\ log' = Append(log, [op |-> "reset_fences", slot |-> frame])
            /\ used' = used \cup {frame}
            /\ pc' = [pc EXCEPT ![t] = "begin"]
            /\ UNCHANGED <<modify, frame>>
    /\ UNCHANGED <<device_resources, phase, nodes, poisoned, swapchainVars, inflight,
                   submit, present,
                   node, qualifiers, naive_barriers, smart_barriers, tableVars>>

\* The fence block: return on TIMEOUT, else take the instants and reset the fence.
WaitFence(t, now) ==
    /\ pc[t] = "fence"
    /\ IF FenceTimeout(frame)
       THEN /\ pc' = [pc EXCEPT ![t] = "idle"]
            /\ modify' = "free"
            /\ UNCHANGED <<fences, last_instant, current_instant, frame, log, used>>
       ELSE /\ last_instant' = current_instant
            /\ current_instant' = now
            /\ fences' = [fences EXCEPT ![frame] = FALSE]
            /\ log' = Append(log, [op |-> "reset_fences", slot |-> frame])
            /\ used' = used \cup {frame}
            /\ pc' = [pc EXCEPT ![t] = "begin"]
            /\ UNCHANGED <<modify, frame>>
    /\ UNCHANGED <<device_resources, phase, nodes, poisoned, swapchainVars, inflight,
                   submit, present,
                   node, qualifiers, naive_barriers, smart_barriers, tableVars>>

\* Mutant of BeginCommandBuffer: the hazard tables outlive the frame.
BeginCommandBufferKeepTables(t) ==
    /\ pc[t] = "begin"
    /\ device_resources \in {"free", t}
    /\ device_resources' = "free"
    /\ log' = Append(log, [op |-> "begin_command_buffer", slot |-> frame])
    /\ node' = 1
    /\ pc' = [pc EXCEPT ![t] = "node"]
    /\ UNCHANGED <<used, graphVars, lockVars, swapchainVars, inflight, frame, submit,
                   present, qualifiers, naive_barriers, smart_barriers, tableVars>>

\* begin_command_buffer(command_buffers[current_frame]), the end of the
\* address-table pass of a build that has one, and the two new tables.
BeginCommandBuffer(t) ==
    /\ pc[t] = "begin"
    /\ device_resources \in {"free", t}
    /\ device_resources' = "free"
    /\ log' = Append(log, [op |-> "begin_command_buffer", slot |-> frame])
    /\ last_image_access' = NewHashMap
    /\ last_buffer_access' = NewHashMap
    /\ node' = 1
    /\ pc' = [pc EXCEPT ![t] = "node"]
    /\ UNCHANGED <<used, graphVars, lockVars, swapchainVars, inflight, frame, submit,
                   present, qualifiers, naive_barriers, smart_barriers>>

\* The log entries of resolving the descriptors of node n, in order.
ResolveEvents(n, quals) ==
    [i \in 1 .. Len(quals) |-> [op |-> "resolve", task |-> n, index |-> i - 1,
                                qualifier |-> quals[i]]]

\* Mutant of ResolveNode: the accessors of the node are called last to first.
ResolveNodeReversed(t, handles) ==
    /\ pc[t] = "node"
    /\ node <= Len(nodes)
    /\ LET resources == nodes[node].resources
           quals == [i \in 1 .. Len(resources) |-> resolve(resources[i], handles[i])]
           events == ResolveEvents(node, quals)
       IN  /\ qualifiers' = quals
           /\ log' = log \o [i \in 1 .. Len(events) |-> events[Len(events) + 1 - i]]
    /\ pc' = [pc EXCEPT ![t] = "derive"]
    /\ UNCHANGED <<device_resources, used, graphVars, lockVars, swapchainVars, inflight,
                   frame, submit, present, node, naive_barriers, smart_barriers,
                   tableVars>>

\* Head of the node loop's body: every accessor of the node is called, in order.
ResolveNode(t, handles) ==
    /\ pc[t] = "node"
    /\ node <= Len(nodes)
    /\ LET resources == nodes[node].resources
           quals == [i \in 1 .. Len(resources) |-> resolve(resources[i], handles[i])]
       IN  /\ qualifiers' = quals
           /\ log' = log \o ResolveEvents(node, quals)
    /\ pc' = [pc EXCEPT ![t] = "derive"]
    /\ UNCHANGED <<device_resources, used, graphVars, lockVars, swapchainVars, inflight,
                   frame, submit, present, node, naive_barriers, smart_barriers,
                   tableVars>>

\* Mutant of PrepareNode: the guard of the size lookup outlives the loop.
PrepareNodeKeepsGuard(t) ==
    /\ pc[t] = "derive"
    /\ InBlock(t)
    /\ LET derived == DeriveBarriers(qualifiers, last_image_access, last_buffer_access)
       IN  /\ last_image_access' = derived.last_image_access
           /\ last_buffer_access' = derived.last_buffer_access
           /\ naive_barriers' = derived.naive_barriers
           /\ smart_barriers' = MergeBarriers(derived.naive_barriers)
    /\ pc' = [pc EXCEPT ![t] = "barriers"]
    /\ UNCHANGED <<device_resources, used, graphVars, lockVars, swapchainVars, inflight,
                   frame, submit, present, node, qualifiers, log>>

\* The qualifier loop and the merge loop: the naive barriers, one per qualifier
\* (a buffer's size is read under the resource table's mutex, whose guard is
\* dropped at the end of the size block), the hazard tables, the batches.
PrepareNode(t) ==
    /\ pc[t] = "derive"
    /\ InBlock(t)
    /\ LET derived == DeriveBarriers(qualifiers, last_image_access, last_buffer_access)
       IN  /\ last_image_access' = derived.last_image_access
           /\ last_buffer_access' = derived.last_buffer_access
           /\ naive_barriers' = derived.naive_barriers
           /\ smart_barriers' = MergeBarriers(derived.naive_barriers)
    /\ device_resources' = "free"
    /\ pc' = [pc EXCEPT ![t] = "barriers"]
    /\ UNCHANGED <<used, graphVars, lockVars, swapchainVars, inflight, frame, submit,
                   present, node, qualifiers, log>>

\* for (_, barrier) in smart_barriers { commands.pipeline_barrier(barrier).unwrap(); }
EmitBarriers(t, order) ==
    /\ pc[t] = "barriers"
    /\ log' = log \o [i \in 1 .. Len(order) |->
                        [op |-> "pipeline_barrier", task |-> node,
                         barrier |-> smart_barriers[order[i]]]]
    /\ pc' = [pc EXCEPT ![t] = "task"]
    /\ UNCHANGED <<device_resources, used, graphVars, lockVars, swapchainVars, inflight,
                   localVars, tableVars>>

\* Mutant of RunTask: a failed body only ends the node loop.
RunTaskBreakOnErr(t, outcome) ==
    /\ pc[t] = "task"
    /\ IF outcome.acquire
       THEN /\ last_acquisition_index' = "Some"
            /\ allow_acquisition' = FALSE
       ELSE UNCHANGED <<last_acquisition_index, allow_acquisition>>
    /\ IF outcome.result = "Err"
       THEN /\ submit' = (submit \/ outcome.submit)
            /\ present' = (present \/ outcome.present)
            /\ log' = Append(log, [op |-> "end_command_buffer", slot |-> frame])
            /\ pc' = [pc EXCEPT ![t] = "submit"]
            /\ UNCHANGED <<lockVars, frame, node, qualifiers, naive_barriers,
                           smart_barriers>>
       ELSE /\ submit' = (submit \/ outcome.submit)
            /\ present' = (present \/ outcome.present)
            /\ log' = Append(log, [op |-> "task", task |-> node])
            /\ node' = node + 1
            /\ pc' = [pc EXCEPT ![t] = "node"]
            /\ UNCHANGED <<lockVars, frame, qualifiers, naive_barriers, smart_barriers>>
    /\ UNCHANGED <<device_resources, used, graphVars, current_frame, inflight, tableVars>>

\* (node.task)(home, &mut commands).unwrap();
RunTask(t, outcome) ==
    /\ pc[t] = "task"
    /\ IF outcome.acquire
       THEN /\ last_acquisition_index' = "Some"
            /\ allow_acquisition' = FALSE
       ELSE UNCHANGED <<last_acquisition_index, allow_acquisition>>
    /\ IF outcome.result = "Err"
       THEN Panic(t)
       ELSE /\ submit' = (submit \/ outcome.submit)
            /\ present' = (present \/ outcome.present)
            /\ log' = Append(log, [op |-> "task", task |-> node])
            /\ node' = node + 1
            /\ pc' = [pc EXCEPT ![t] = "node"]
            /\ UNCHANGED <<lockVars, frame, qualifiers, naive_barriers, smart_barriers>>
    /\ UNCHANGED <<device_resources, used, graphVars, current_frame, inflight, tableVars>>

\* Mutant of EndCommandBuffer: the loop may end before the last node.
EndCommandBufferEarly(t) ==
    /\ pc[t] = "node"
    /\ node >= Len(nodes)
    /\ log' = Append(log, [op |-> "end_command_buffer", slot |-> frame])
    /\ pc' = [pc EXCEPT ![t] = "submit"]
    /\ UNCHANGED <<device_resources, used, graphVars, lockVars, swapchainVars, inflight,
                   localVars, tableVars>>

\* end_command_buffer(command_buffers[current_frame]), after the last node.
EndCommandBuffer(t) ==
    /\ pc[t] = "node"
    /\ node > Len(nodes)
    /\ log' = Append(log, [op |-> "end_command_buffer", slot |-> frame])
    /\ pc' = [pc EXCEPT ![t] = "submit"]
    /\ UNCHANGED <<device_resources, used, graphVars, lockVars, swapchainVars, inflight,
                   localVars, tableVars>>

\* Mutant of Submit: the submission signals the fence of the next slot.
SubmitNextFence(t) ==
    /\ pc[t] = "submit"
    /\ InBlock(t)
    /\ device_resources' = "free"
    /\ IF submit
       THEN /\ inflight' = Append(inflight, (frame + 1) % MAX_FRAMES_IN_FLIGHT)
            /\ log' = Append(log, [op |-> "queue_submit", slot |-> frame,
                                   fence |-> (frame + 1) % MAX_FRAMES_IN_FLIGHT])
       ELSE UNCHANGED <<inflight, log>>
    /\ pc' = [pc EXCEPT ![t] = "present"]
    /\ UNCHANGED <<used, graphVars, lockVars, swapchainVars, localVars, tableVars>>

\* if let Some(submit) = submit { ... queue_submit(queue, .., fences[current_frame]) }
Submit(t) ==
    /\ pc[t] = "submit"
    /\ InBlock(t)
    /\ device_resources' = "free"
    /\ IF submit
       THEN /\ inflight' = Append(inflight, frame)
            /\ log' = Append(log, [op |-> "queue_submit", slot |-> frame,
                                   fence |-> frame])
       ELSE UNCHANGED <<inflight, log>>
    /\ pc' = [pc EXCEPT ![t] = "present"]
    /\ UNCHANGED <<used, graphVars, lockVars, swapchainVars, localVars, tableVars>>

\* if let Some(present) = present { ... queue_present(queue, &present_info) };
\* the unwrap of last_acquisition_index panics inside the block, and unwinding
\* drops the block's guard too.
Present(t) ==
    /\ pc[t] = "present"
    /\ InBlock(t)
    /\ device_resources' = "free"
    /\ IF present /\ last_acquisition_index = "None"
       THEN Panic(t)
       ELSE /\ log' = IF present THEN Append(log, [op |-> "queue_present"]) ELSE log
            /\ pc' = [pc EXCEPT ![t] = "rotate"]
            /\ UNCHANGED <<lockVars, localVars>>
    /\ UNCHANGED <<used, graphVars, swapchainVars, inflight, tableVars>>

\* Mutant of Rotate: the slot is advanced only when the frame was submitted.
RotateOnSubmit(t) ==
    /\ pc[t] = "rotate"
    /\ InBlock(t)
    /\ device_resources' = "free"
    /\ current_frame' = IF submit THEN (current_frame + 1) % MAX_FRAMES_IN_FLIGHT
                        ELSE current_frame
    /\ allow_acquisition' = TRUE
    /\ pc' = [pc EXCEPT ![t] = "return"]
    /\ UNCHANGED <<used, graphVars, lockVars, last_acquisition_index, inflight, localVars,
                   tableVars, log>>

\* The last block: current_frame = (current_frame + 1) % N, allow_acquisition = true.
Rotate(t) ==
    /\ pc[t] = "rotate"
    /\ InBlock(t)
    /\ device_resources' = "free"
    /\ current_frame' = (current_frame + 1) % MAX_FRAMES_IN_FLIGHT
    /\ allow_acquisition' = TRUE
    /\ pc' = [pc EXCEPT ![t] = "return"]
    /\ UNCHANGED <<used, graphVars, lockVars, last_acquisition_index, inflight, localVars,
                   tableVars, log>>

\* End of render(): the guard of the graph mutex and the locals are dropped.
Return(t) ==
    /\ pc[t] = "return"
    /\ pc' = [pc EXCEPT ![t] = "idle"]
    /\ modify' = "free"
    /\ DropLocals
    /\ UNCHANGED <<device_resources, used, graphVars, poisoned, swapchainVars, inflight, tableVars>>

\* ---------------------------------------------------------------------- GPU
\* Mutant of GpuComplete: the completed submission does not signal its fence.
GpuCompleteWithoutSignal ==
    /\ inflight # <<>>
    /\ inflight' = Tail(inflight)
    /\ UNCHANGED <<device_resources, used, phase, nodes, fences, last_instant,
                   current_instant, lockVars,
                   swapchainVars, pc, localVars, tableVars, log>>

\* The queue completes its oldest submission and signals that submission's fence.
GpuComplete ==
    /\ inflight # <<>>
    /\ fences' = [fences EXCEPT ![Head(inflight)] = TRUE]
    /\ inflight' = Tail(inflight)
    /\ UNCHANGED <<device_resources, used, phase, nodes, last_instant, current_instant, lockVars,
                   swapchainVars, pc, localVars, tableVars, log>>

\* ------------------------------------------------------------ specification
\* The handles the accessors of `resources` may resolve to, one per descriptor.
HandleChoices(resources, buffers, images) ==
    {h \in [1 .. Len(resources) -> buffers \cup images] :
        \A i \in 1 .. Len(resources) :
            h[i] \in (IF resources[i].kind = "Buffer" THEN buffers ELSE images)}

\* One step of the builder or of a caller of render(), for the given inputs.
Step(callers, lists, buffers, images, outcomes, clock) ==
    \/ \E resources \in lists : add(resources)
    \/ \E outcome \in CompleteOutcomes, now \in clock : complete(outcome, now)
    \/ \E t \in callers : Lock(t)
    \/ \E t \in callers : ReadSwapchain(t)
    \/ \E t \in callers, now \in clock : now >= current_instant /\ WaitFence(t, now)
    \/ \E t \in callers : BeginCommandBuffer(t)
    \/ \E t \in callers : LockResources(t)
    \/ \E t \in callers :
          /\ node \in 1 .. Len(nodes)
          /\ \E handles \in HandleChoices(nodes[node].resources, buffers, images) :
                ResolveNode(t, handles)
    \/ \E t \in callers : PrepareNode(t)
    \/ \E t \in callers : \E order \in IterationOrders(smart_barriers) : EmitBarriers(t, order)
    \/ \E t \in callers, outcome \in outcomes : RunTask(t, outcome)
    \/ \E t \in callers : EndCommandBuffer(t)
    \/ \E t \in callers : Submit(t)
    \/ \E t \in callers : Present(t)
    \/ \E t \in callers : Rotate(t)
    \/ \E t \in callers : Return(t)

\* The frame lifecycle: two callers, every task outcome, a moving clock and the
\* GPU, over task lists whose tasks declare buffer X as a compute-shader write
\* or declare nothing.
LifecycleLists == {<<>>, <<BufferDescriptor("ComputeShaderWriteOnly")>>}

Next ==
    \/ Step(Callers, LifecycleLists, {"X"}, {"Y"}, TaskOutcomes, 0 .. MaxClock)
    \/ GpuComplete

Spec == Init /\ [][Next]_vars

\* Barrier derivation: every task list over Descriptors and every handle the
\* accessors may yield, for one caller whose tasks succeed and request neither
\* submit nor present, so that each slot is recorded once.
RecordingOutcomes ==
    {o \in TaskOutcomes : ~o.submit /\ ~o.present /\ ~o.acquire /\ o.result = "Ok"}

NextBarriers ==
    Step({"t1"}, ResourceLists, BufferHandles, ImageHandles, RecordingOutcomes, {0})

SpecBarriers == Init /\ [][NextBarriers]_vars

\* Barrier derivation over descriptors that may request the access None: the
\* descriptors of Descriptors and, for each kind, the one with access None.
AccessDescriptors ==
    Descriptors \cup {BufferDescriptor("None"), ImageDescriptor("None")}

AccessLists == SeqsUpTo(AccessDescriptors, MaxDescriptors)

NextAccess == Step({"t1"}, AccessLists, {"X"}, {"Y"}, RecordingOutcomes, {0})

SpecAccess == Init /\ [][NextAccess]_vars

\* The frame lifecycle under the scheduling the liveness claims assume: one
\* caller that keeps calling render() (a step of the builder or of the call is
\* eventually taken while one is possible) and a GPU that eventually completes
\* the oldest submission it holds.
LiveStep == Step({"t1"}, LifecycleLists, {"X"}, {"Y"}, TaskOutcomes, {0})

NextLive == LiveStep \/ GpuComplete

SpecLive ==
    /\ Init
    /\ [][NextLive]_vars
    /\ WF_vars(LiveStep)
    /\ WF_vars(GpuComplete)

\* The same scheduling with a second caller sharing the graph, whose calls
\* come after, or between, those of the first.
SharedStep == Step(Callers, LifecycleLists, {"X"}, {"Y"}, TaskOutcomes, {0})

NextShared == SharedStep \/ GpuComplete

SpecShared ==
    /\ Init
    /\ [][NextShared]_vars
    /\ WF_vars(SharedStep)
    /\ WF_vars(GpuComplete)

\* =================================================================== claims
Count(seq, x) == Cardinality({i \in DOMAIN seq : seq[i] = x})
LogOps(op) == {i \in DOMAIN log : log[i].op = op}

\* Positions of render() between begin_command_buffer and queue_submit.
RecordingPositions == {"node", "derive", "barriers", "task", "submit"}

\* ------------------------------------------------------------------- C1
\* C1: render() opens slot s's command buffer only after the wait found slot
\* s's fence signaled: while a caller is between the fence wait and the queue
\* submission of slot s, no submission of slot s is pending on the GPU and the
\* fence of s is unsignaled; every slot has at most one pending submission and
\* at most MAX_FRAMES_IN_FLIGHT submissions are in flight.
C1_NoRerecordWhilePending ==
    /\ \A t \in Callers :
          pc[t] \in {"begin"} \cup RecordingPositions =>
             /\ Count(inflight, frame) = 0
             /\ ~fences[frame]
    /\ \A s \in Slots : Count(inflight, s) <= 1
    /\ \A s \in Slots : Count(inflight, s) = 1 => ~fences[s]
    /\ Len(inflight) <= MAX_FRAMES_IN_FLIGHT

\* Slot 0 is being recorded again while the submission of the last slot is
\* still pending.
C1_Witness ==
    \E t \in Callers :
       /\ pc[t] = "task"
       /\ frame = 0
       /\ inflight = <<MAX_FRAMES_IN_FLIGHT - 1>>

\* ------------------------------------------------------------------- C2
\* What outlives a call of render(): the graph, the swapchain, the GPU queue,
\* the poison flag.
Persistent == <<graphVars, poisoned, swapchainVars, inflight>>

\* C2: a call that finds the fence of slot swapchain.current_frame unsignaled
\* returns from the fence wait, and none of its steps (taking the mutex, reading
\* the swapchain, the wait) changes anything: nothing is resolved, run, recorded,
\* submitted or presented (the log stays empty), and fences, instants, node
\* list, current_frame and allow_acquisition keep their values.
C2_SkipChangesNothing ==
    [][ \A t \in Callers :
          (/\ pc'[t] # pc[t]
           /\ \/ pc[t] \in {"idle", "swapchain"}
              \/ pc[t] = "fence" /\ ~fences[current_frame])
          => /\ UNCHANGED Persistent
             /\ log = <<>> /\ log' = <<>>
             /\ (pc[t] = "fence" => pc'[t] = "idle" /\ modify' = "free" /\ frame = current_frame)
      ]_vars

\* A caller is at the fence wait of a slot whose submission is still pending,
\* after the clock has moved.
C2_Witness ==
    \E t \in Callers :
       /\ pc[t] = "fence"
       /\ ~fences[current_frame]
       /\ Count(inflight, current_frame) = 1
       /\ last_instant # current_instant

C10_SubmitPresentIndependent ==
    \A t \in Callers :
       pc[t] = "return" =>
          /\ ~submit => LogOps("queue_submit") = {} /\ LogOps("queue_present") = {}
          /\ (submit /\ ~present) =>
                Cardinality(LogOps("queue_submit")) = 1 /\ LogOps("queue_present") = {}

\* ------------------------------------------------- the frame's history
\* The claims below read what the frame did from the log: its "resolve" entries
\* are the qualifiers in the order the accessors produced them, its
\* "pipeline_barrier" entries the batches in the order they were emitted.
Max(S) == CHOOSE x \in S : \A y \in S : y <= x

\* A caller is inside a frame that has opened its command buffer.
InFrame == \E t \in Callers : pc[t] \in {"node", "barriers", "task", "submit",
                                         "present", "rotate", "return"}

Resolved == LogOps("resolve")
ResolvedOn(kind, handle) ==
    {i \in Resolved : log[i].qualifier.kind = kind /\ log[i].qualifier.handle = handle}
Touched(kind) == {log[i].qualifier.handle : i \in {x \in Resolved : log[x].qualifier.kind = kind}}

\* The resolve entries before entry i on the same resource.
EarlierOn(i) ==
    {x \in ResolvedOn(log[i].qualifier.kind, log[i].qualifier.handle) : x < i}

\* The access requested by the most recent earlier descriptor on i's resource.
PreviousAccess(i) ==
    IF EarlierOn(i) = {} THEN "None" ELSE log[Max(EarlierOn(i))].qualifier.access

StageOf(kind, access) ==
    IF kind = "Buffer" THEN BufferAccessToPipelineStage(access)
    ELSE ImageAccessToPipelineStage(access)
PermissionOf(kind, access) ==
    IF kind = "Buffer" THEN BufferAccessToAccess(access) ELSE ImageAccessToAccess(access)

\* The stage pair the barrier of resolve entry i has to carry.
PairOf(i) ==
    <<StageOf(log[i].qualifier.kind, PreviousAccess(i)),
      StageOf(log[i].qualifier.kind, log[i].qualifier.access)>>

\* The emitted sub-barriers: <<j, n>> is the n-th sub-barrier of log entry j.
Emitted ==
    UNION {{<<j, n>> : n \in 1 .. Len(log[j].barrier.barriers)} :
             j \in LogOps("pipeline_barrier")}
SubBarrier(jn) == log[jn[1]].barrier.barriers[jn[2]]

\* The emitted sub-barriers of the qualifier of resolve entry i.
EmittedFor(i) ==
    {jn \in Emitted : /\ log[jn[1]].task = log[i].task
                      /\ SubBarrier(jn).index = log[i].index}

\* The body of node n has been reached, so the node's batches are all emitted.
BatchesEmitted(n) ==
    \/ \E i \in LogOps("task") : log[i].task = n
    \/ node = n /\ \E t \in Callers : pc[t] = "task"

\* ------------------------------------------------------------------- C3
\* C3: inside a frame, once the nodes up to k are processed, each hazard table
\* has an entry exactly for the handles some descriptor of those nodes resolved
\* to, and the entry is the access of the last such descriptor.
C3_HazardTableIsLastAccess ==
    InFrame =>
       /\ DOMAIN last_buffer_access = Touched("Buffer")
       /\ DOMAIN last_image_access = Touched("Image")
       /\ \A h \in Touched("Buffer") :
             last_buffer_access[h] = log[Max(ResolvedOn("Buffer", h))].qualifier.access
       /\ \A h \in Touched("Image") :
             last_image_access[h] = log[Max(ResolvedOn("Image", h))].qualifier.access

\* Buffer X was declared by two nodes with different accesses, the table holds
\* the later one, and buffer Z, never touched, has no entry.
C3_Witness ==
    /\ InFrame
    /\ \E i, j \in ResolvedOn("Buffer", "X") :
          /\ log[i].task < log[j].task
          /\ log[i].qualifier.access # log[j].qualifier.access
          /\ j = Max(ResolvedOn("Buffer", "X"))
          /\ last_buffer_access["X"] = log[j].qualifier.access
    /\ "Z" \notin DOMAIN last_buffer_access

\* ------------------------------------------------------------------- C4
\* C4: in every frame, the sub-barrier of the first descriptor that touches a
\* resource in the frame has the empty src_stage and src permission and, for an
\* image, old_layout Undefined; a first ColorAttachment access gives new_layout
\* AttachmentOptimal.
C4_FirstAccessFromNone ==
    \A i \in Resolved :
       EarlierOn(i) = {} =>
          \A jn \in EmittedFor(i) :
             /\ log[jn[1]].barrier.src_stage = {}
             /\ SubBarrier(jn).src_access = {}
             /\ log[i].qualifier.kind = "Image" =>
                   /\ SubBarrier(jn).old_layout = "Undefined"
                   /\ log[i].qualifier.access = "ColorAttachment" =>
                         SubBarrier(jn).new_layout = "AttachmentOptimal"

\* In a frame after the first one, image Y, a color attachment of the previous
\* frame too, is first touched as a color attachment and its barrier is emitted.
C4_Witness ==
    /\ frame >= 1
    /\ \E i \in Resolved :
          /\ EarlierOn(i) = {}
          /\ log[i].qualifier = [kind |-> "Image", handle |-> "Y",
                                 access |-> "ColorAttachment", aspect |-> "COLOR"]
          /\ \E jn \in EmittedFor(i) :
                /\ SubBarrier(jn).old_layout = "Undefined"
                /\ SubBarrier(jn).new_layout = "AttachmentOptimal"

\* ------------------------------------------------------------------- C5
\* Task A declares one buffer as ComputeShaderWriteOnly, task B one buffer as
\* ComputeShaderReadOnly.
WriteThenRead ==
    nodes = << [resources |-> <<BufferDescriptor("ComputeShaderWriteOnly")>>],
               [resources |-> <<BufferDescriptor("ComputeShaderReadOnly")>>] >>

\* C5: every emitted sub-barrier has, on its source side, the mapping of the
\* access of the most recent earlier descriptor on the same handle in the frame
\* (None if there is none) and, on its destination side, the mapping of its own
\* qualifier's access. With tasks A and B of WriteThenRead resolving to the same
\* buffer, exactly one batch lies between A's body and B's body: its pair is
\* (COMPUTE_SHADER, COMPUTE_SHADER) and it carries one sub-barrier, WRITE to READ.
C5_BarrierSides ==
    /\ \A i \in Resolved : \A jn \in EmittedFor(i) :
          LET q == log[i].qualifier
              b == SubBarrier(jn)
              prev == PreviousAccess(i)
          IN  /\ log[jn[1]].barrier.src_stage = StageOf(q.kind, prev)
              /\ log[jn[1]].barrier.dst_stage = StageOf(q.kind, q.access)
              /\ b.src_access = PermissionOf(q.kind, prev)
              /\ b.dst_access = PermissionOf(q.kind, q.access)
              /\ q.kind = "Image" =>
                    /\ b.old_layout = ImageAccessToImageLayout(prev)
                    /\ b.new_layout = ImageAccessToImageLayout(q.access)
    /\ (/\ WriteThenRead
        /\ BatchesEmitted(2)
        /\ \E h \in BufferHandles : Cardinality(ResolvedOn("Buffer", h)) = 2)
       => LET between == {j \in LogOps("pipeline_barrier") : log[j].task = 2}
          IN  /\ Cardinality(between) = 1
              /\ \A j \in between :
                    /\ \E a \in LogOps("task") : log[a].task = 1 /\ a < j
                    /\ \A a \in LogOps("task") : log[a].task = 2 => j < a
                    /\ log[j].barrier.src_stage = {"COMPUTE_SHADER"}
                    /\ log[j].barrier.dst_stage = {"COMPUTE_SHADER"}
                    /\ Len(log[j].barrier.barriers) = 1
                    /\ log[j].barrier.barriers[1].kind = "Buffer"
                    /\ log[j].barrier.barriers[1].src_access = {"WRITE"}
                    /\ log[j].barrier.barriers[1].dst_access = {"READ"}

\* Tasks A and B of WriteThenRead resolved to buffer X and B's body has run.
C5_Witness ==
    /\ WriteThenRead
    /\ Cardinality(ResolvedOn("Buffer", "X")) = 2
    /\ \E a \in LogOps("task") : log[a].task = 2
    /\ \E j \in LogOps("pipeline_barrier") :
          log[j].task = 2 /\ log[j].barrier.barriers[1].src_access = {"WRITE"}

\* ------------------------------------------------------------------- C6
KeyOf(b) == <<b.src_stage, b.dst_stage>>

\* C6: the merged batches of a node are the partition of its naive barriers by
\* stage pair. There is one naive barrier per qualifier; the keys of the batches
\* are the pairs of the naive barriers and each batch carries its key; the
\* sub-barrier of a naive barrier is once in the batch of its own pair and in no
\* other batch; a batch holds nothing else; and the batches emitted for the node
\* are these batches, each once. (Between the accessors of a node and its
\* qualifier loop the node has no barriers yet.)
C6_ExactPartition ==
    /\ (\A t \in Callers : pc[t] # "derive") => Len(naive_barriers) = Len(qualifiers)
    /\ \A i \in DOMAIN naive_barriers :
          /\ Len(naive_barriers[i].barriers) = 1
          /\ naive_barriers[i].barriers[1].index = i - 1
          /\ (\A t \in Callers : pc[t] # "derive") =>
                naive_barriers[i].barriers[1].kind = qualifiers[i].kind
    /\ DOMAIN smart_barriers = {KeyOf(naive_barriers[i]) : i \in DOMAIN naive_barriers}
    /\ \A key \in DOMAIN smart_barriers :
          /\ KeyOf(smart_barriers[key]) = key
          /\ Len(smart_barriers[key].barriers) =
                Cardinality({i \in DOMAIN naive_barriers : KeyOf(naive_barriers[i]) = key})
          /\ \A i \in DOMAIN naive_barriers :
                Count(smart_barriers[key].barriers, naive_barriers[i].barriers[1]) =
                   IF KeyOf(naive_barriers[i]) = key THEN 1 ELSE 0
    /\ (\E t \in Callers : pc[t] = "task") =>
          LET emitted == {j \in LogOps("pipeline_barrier") : log[j].task = node}
          IN  /\ Cardinality(emitted) = Cardinality(DOMAIN smart_barriers)
              /\ \A key \in DOMAIN smart_barriers :
                    \E j \in emitted : log[j].barrier = smart_barriers[key]

\* The barriers of a buffer qualifier and of an image qualifier of one node,
\* which have the same stage pair, were merged into one batch and emitted.
C6_Witness ==
    /\ \E t \in Callers : pc[t] = "task"
    /\ \E key \in DOMAIN smart_barriers :
          /\ Len(smart_barriers[key].barriers) = 2
          /\ smart_barriers[key].barriers[1].kind # smart_barriers[key].barriers[2].kind

\* ------------------------------------------------------------------- C7
\* The frame's command buffer has been closed.
FrameRecorded == \E t \in Callers : pc[t] \in {"submit", "present", "rotate", "return"}

\* C7 as stated: the pipeline barriers of a whole frame are as many as the
\* distinct stage pairs among the frame's naive barriers.
C7_OnePerPairOfFrame ==
    FrameRecorded =>
       Cardinality(LogOps("pipeline_barrier")) = Cardinality({PairOf(i) : i \in Resolved})

\* C7, amended: pairs are counted per task. The pipeline barriers emitted for a
\* task are as many as the distinct stage pairs among that task's naive
\* barriers, so those of the whole frame are as many as the distinct
\* (task, src_stage, dst_stage) triples, which is at most the number of
\* qualifiers and at least the number of distinct pairs of the frame.
C7_OnePerPairOfTask ==
    InFrame =>
       /\ \A n \in 1 .. Len(nodes) :
             Cardinality({j \in LogOps("pipeline_barrier") : log[j].task = n}) =
                IF BatchesEmitted(n)
                THEN Cardinality({PairOf(i) : i \in {x \in Resolved : log[x].task = n}})
                ELSE 0
       /\ FrameRecorded =>
             /\ Cardinality(LogOps("pipeline_barrier")) =
                   Cardinality({<<log[i].task, PairOf(i)>> : i \in Resolved})
             /\ Cardinality(LogOps("pipeline_barrier")) <= Cardinality(Resolved)
             /\ Cardinality(LogOps("pipeline_barrier")) >=
                   Cardinality({PairOf(i) : i \in Resolved})

\* A recorded frame with more pipeline barriers than distinct stage pairs: two
\* tasks each emitted a barrier of the same pair.
C7_Witness ==
    /\ FrameRecorded
    /\ Cardinality(LogOps("pipeline_barrier")) = 2
    /\ Cardinality({PairOf(i) : i \in Resolved}) = 1

\* ------------------------------------------------------------------- C8
\* Resolve entry i is a read-only access that follows a read-only access to the
\* same resource in this frame, in the same layout if the resource is an image.
ReadAfterRead(i) ==
    LET q == log[i].qualifier
        prev == PreviousAccess(i)
    IN  /\ PermissionOf(q.kind, prev) = {"READ"}
        /\ PermissionOf(q.kind, q.access) = {"READ"}
        /\ q.kind = "Image" =>
              ImageAccessToImageLayout(prev) = ImageAccessToImageLayout(q.access)

\* C8: the executor emits only the barriers data-hazard ordering needs: a read
\* after a read (same layout, for an image) contributes no sub-barrier to any
\* emitted pipeline barrier. The code derives a barrier for every qualifier, so
\* two tasks that each read buffer X in a compute shader violate this: the
\* second task's batch carries a sub-barrier from READ to READ.
C8_NoBarrierForReadAfterRead ==
    \A i \in Resolved : ReadAfterRead(i) => EmittedFor(i) = {}

\* ------------------------------------------------------------------ C11
\* The entries of the log before entry i that are task bodies.
BodiesBefore(i) == {x \in LogOps("task") : x < i}

C12_OneSubmissionPerFrame ==
    /\ [](Cardinality(LogOps("queue_submit")) <= 1)
    /\ [](\A i \in LogOps("queue_submit") :
             /\ i > 1
             /\ log[i - 1].op = "end_command_buffer"
             /\ log[i - 1].slot = frame
             /\ log[i].slot = frame
             /\ log[i].fence = frame
             /\ \A j \in LogOps("queue_present") : i < j)
    /\ [](\A s \in Slots : Count(inflight, s) >= 1 => ~fences[s])
    /\ [][ inflight' # inflight /\ Len(inflight') >= Len(inflight) =>
             /\ \E t \in Callers : pc[t] = "submit" /\ pc'[t] = "present"
             /\ submit
             /\ frame = current_frame
             /\ inflight' = Append(inflight, frame)
         ]_vars
    /\ [][ \A s \in Slots :
             (phase = "ready" /\ ~fences[s] /\ fences'[s]) =>
                /\ inflight # <<>>
                /\ Head(inflight) = s
                /\ inflight' = Tail(inflight)
         ]_vars
    /\ [][ \A t \in Callers :
             (pc[t] = "fence" /\ pc'[t] = "begin") => Count(inflight, frame) = 0
         ]_vars

\* A frame of two tasks has been submitted once and presented, and its
\* submission still holds the slot's fence unsignaled.
C12_Witness ==
    /\ Len(nodes) = 2
    /\ \E t \in Callers : pc[t] = "rotate"
    /\ submit /\ present
    /\ Cardinality(LogOps("queue_submit")) = 1
    /\ Cardinality(LogOps("queue_present")) = 1
    /\ Count(inflight, frame) = 1
    /\ ~fences[frame]

\* ------------------------------------------------------------------ C13
\* C13: a task body either succeeds, and the loop goes on to the next node, or
\* fails, and the frame ends there with the failure as its outcome (the unwrap
\* panics: render() returns nothing). At that point the bodies that ran are
\* those of the tasks before the failed one, no batch of a later task was
\* emitted and nothing was submitted or presented; the step submits nothing,
\* and the frame never resumes: a panicked call stays panicked, the mutex it
\* held is poisoned, and no caller is inside a frame any more.
C13_FailFast ==
    /\ [][ \A t \in Callers :
             (pc[t] = "task" /\ pc'[t] # pc[t] /\ pc'[t] # "node") =>
                /\ pc'[t] = "panicked"
                /\ poisoned'
                /\ {log[i].task : i \in LogOps("task")} = 1 .. (node - 1)
                /\ \A i \in LogOps("pipeline_barrier") : log[i].task <= node
                /\ LogOps("queue_submit") = {}
                /\ LogOps("queue_present") = {}
                /\ LogOps("end_command_buffer") = {}
                /\ inflight' = inflight
                /\ log' = <<>>
         ]_vars
    /\ [][ \A t \in Callers : pc[t] = "panicked" => pc'[t] = "panicked" ]_vars
    /\ [][ poisoned => poisoned' /\ Len(inflight') <= Len(inflight) ]_vars
    /\ [](poisoned =>
             /\ modify = "free"
             /\ log = <<>>
             /\ \A t \in Callers : pc[t] \in {"idle", "panicked"})

\* A body of a two-task graph failed after a swapchain image had been acquired
\* (so the panic was not the present block's): the call has panicked, the slot
\* was not advanced, its fence is left unsignaled and nothing is on the queue.
C13_Witness ==
    /\ Len(nodes) = 2
    /\ \E t \in Callers : pc[t] = "panicked"
    /\ poisoned
    /\ last_acquisition_index = "Some"
    /\ used = {0}
    /\ current_frame = 0
    /\ ~fences[0]
    /\ inflight = <<>>

\* ------------------------------------------------------------------ C14
\* Some call has passed the fence wait and is about to open its command buffer.
FrameStarted == \E t \in Callers : pc[t] = "begin"

\* No call panics: no task body fails and no present is requested before a
\* swapchain image was acquired.
NoPanic == [](~poisoned)

\* C14: with callers that keep calling render() and a GPU that completes every
\* submission, non-skipped frames happen infinitely often, whether or not the
\* tasks request a submit. (Stated for behaviours in which no call panics: the
\* frames that never come back here are those of tasks that request no submit.)
C14_NoIndefiniteBackpressure ==
    NoPanic => [](phase = "ready" => <>FrameStarted)

\* ------------------------------------------------------------------ C15
\* C15: complete() either fails, and then there is no graph (no fence exists
\* and no call of render() ever takes a step), or succeeds, and then the graph
\* has one fence per slot, all signaled. A fence stays signaled until a call
\* resets it, so the first call that reaches the fence wait of a slot passes
\* it, with no submission of that slot made before.
C15_CompleteAllOrNothing ==
    /\ [](phase = "building" => fences = <<>>)
    /\ [](phase = "failed" =>
             /\ fences = <<>>
             /\ used = {}
             /\ inflight = <<>>
             /\ \A t \in Callers : pc[t] = "idle")
    /\ [](phase = "ready" =>
             /\ DOMAIN fences = Slots
             /\ Cardinality(DOMAIN fences) = MAX_FRAMES_IN_FLIGHT
             /\ \A s \in Slots \ used : fences[s] /\ Count(inflight, s) = 0)
    /\ [][ phase' # phase =>
             /\ phase = "building"
             /\ phase' = "ready" => \A s \in Slots : fences'[s]
         ]_vars
    /\ [][ \A t \in Callers :
             (pc[t] = "fence" /\ pc'[t] # pc[t] /\ frame \notin used) =>
                /\ pc'[t] = "begin"
                /\ used' = used \cup {frame}
         ]_vars

\* The first call on the last slot has passed the fence wait although no frame
\* so far was submitted: every fence has been reset and the queue is empty.
C15_Witness ==
    /\ phase = "ready"
    /\ \E t \in Callers : pc[t] = "begin"
    /\ frame = MAX_FRAMES_IN_FLIGHT - 1
    /\ used = Slots
    /\ inflight = <<>>
    /\ \A s \in Slots : ~fences[s]

\* ------------------------------------------------------------------ C16
\* No present is requested before a swapchain image was acquired: a call that
\* panics then does so because a task body failed, or because the mutex was
\* poisoned by a call whose task body failed.
NoPresentWithoutImage ==
    [](\A t \in Callers :
          pc[t] = "present" => ~(present /\ last_acquisition_index = "None"))

\* A call has passed the fence wait of slot s.
Reacquired(s) == \E t \in Callers : pc[t] = "begin" /\ frame = s

\* C16: the step in which a task body fails leaves swapchain.current_frame as
\* it was, and, with callers that keep calling render() and a GPU that
\* completes every submission, after a task body failed on slot s some later
\* call passes the fence wait of slot s again.
C16_RecoveryAfterTaskFailure ==
    /\ [][ \A t \in Callers :
             (pc[t] = "task" /\ pc'[t] = "panicked") => current_frame' = current_frame
         ]_vars
    /\ NoPresentWithoutImage =>
          \A s \in Slots : [](poisoned /\ current_frame = s => <>Reacquired(s))

\* ------------------------------------------------------------------ C17
\* Every frame that closes its command buffer has a submit requested.
EveryFrameSubmits == [](\A t \in Callers : pc[t] = "submit" => submit)

\* The fence of slot s exists and is signaled.
Signaled(s) == IF phase = "ready" THEN fences[s] ELSE FALSE

\* The fence of slot s exists and is unsignaled.
Unsignaled(s) == IF phase = "ready" THEN ~fences[s] ELSE FALSE

\* Positions of a call between the fence wait and the rotation.
BeforeRotation ==
    {"begin", "node", "derive", "barriers", "task", "submit", "present", "rotate"}

\* Some call is about to return from a frame, with the slot advanced by one.
FrameRotated ==
    /\ \E t \in Callers : pc[t] = "return"
    /\ current_frame = (frame + 1) % MAX_FRAMES_IN_FLIGHT

EmittedOnImage(h) ==
    {jn \in Emitted :
        /\ SubBarrier(jn).kind = "Image"
        /\ \E i \in ResolvedOn("Image", h) :
              log[i].task = log[jn[1]].task /\ log[i].index = SubBarrier(jn).index}

\* <<j, n>> is emitted before <<k, m>>: an earlier command, or earlier in the
\* same command.
EmittedBefore(jn, km) == jn[1] < km[1] \/ (jn[1] = km[1] /\ jn[2] < km[2])

\* C18: in whatever order the batches of a task are emitted, the barriers on an
\* image form a chain in the order of emission: the first starts from layout
\* Undefined and each later one starts from the layout the one emitted just
\* before it on that image ended in.
C18_LayoutChainInEmissionOrder ==
    \A h \in ImageHandles :
       \A km \in EmittedOnImage(h) :
          LET before == {jn \in EmittedOnImage(h) : EmittedBefore(jn, km)}
          IN  IF before = {}
              THEN SubBarrier(km).old_layout = "Undefined"
              ELSE \E jn \in before :
                      /\ \A x \in before : x = jn \/ EmittedBefore(x, jn)
                      /\ SubBarrier(km).old_layout = SubBarrier(jn).new_layout

\* ------------------------------------------------------------------ C19
\* Positions of a call that has passed the fence wait.
PastFenceWait == BeforeRotation \cup {"return"}

\* C19: a call that has passed the fence wait leaves render() only by its
\* return, after it has closed the command buffer and advanced the slot,
\* whatever the task bodies return and whatever submit or present they request.
C19_OnlyTheFenceWaitExitsEarly ==
    [][ \A t \in Callers :
          (pc[t] \in PastFenceWait /\ pc'[t] \notin PastFenceWait) =>
             /\ pc[t] = "return"
             /\ pc'[t] = "idle"
             /\ Cardinality(LogOps("end_command_buffer")) = 1
             /\ current_frame = (frame + 1) % MAX_FRAMES_IN_FLIGHT
      ]_vars

\* ------------------------------------------------------------------ C20
\* C20: frame_time() is never negative and is zero until a call has passed the
\* fence wait. The two instants change only in the step in which a call passes
\* the fence wait, and every such step moves the instant captured by the
\* previous one (by complete(), for the first) to last_instant and captures a
\* new, not earlier, current_instant: frame_time() is the difference of the
\* instants of the two most recent non-skipped calls. A skipped call changes
\* neither.
C20_FrameTime ==
    /\ [](phase = "ready" => frame_time >= 0)
    /\ [](phase = "ready" /\ used = {} => frame_time = 0)
    /\ [][ (phase = "ready" /\ <<last_instant, current_instant>>' #
                                <<last_instant, current_instant>>) =>
             \E t \in Callers : pc[t] = "fence" /\ pc'[t] = "begin"
         ]_vars
    /\ [][ \A t \in Callers :
             (pc[t] = "fence" /\ pc'[t] = "begin") =>
                /\ last_instant' = current_instant
                /\ current_instant' >= current_instant
                /\ frame_time' = current_instant' - current_instant
         ]_vars
    /\ [][ \A t \in Callers :
             (pc[t] = "fence" /\ pc'[t] = "idle") =>
                frame_time' = frame_time /\ UNCHANGED <<last_instant, current_instant>>
         ]_vars

\* Every slot has been used, the last two non-skipped calls were MaxClock
\* apart, and a call is being skipped at the fence wait.
C20_Witness ==
    /\ phase = "ready"
    /\ used = Slots
    /\ frame_time = MaxClock
    /\ MaxClock > 0
    /\ \E t \in Callers : pc[t] = "fence" /\ ~fences[frame]


\* ------------------------------------------------------------------ C21
\* The call of t is between taking the graph's mutex and its end.
Inside(t) == pc[t] \notin {"idle", "panicked"}

\* C21: render() calls through clones of one graph are serialized. A call holds
\* the graph's mutex at every position from the read of current_frame to the
\* return that follows the rotation, so at most one call is inside and at most
\* one records; while a call is inside, no other call takes a step; the slot a
\* call works on is the swapchain's current_frame at its entry, only the
\* rotation writes current_frame, and it writes the successor of that slot, so
\* the next call to enter reads the rotated value.
C21_CallsAreSerialized ==
    /\ [](/\ \A t \in Callers : Inside(t) => modify = t
          /\ Cardinality({t \in Callers : Inside(t)}) <= 1
          /\ Cardinality({t \in Callers : pc[t] \in RecordingPositions}) <= 1)
    /\ [][/\ \A t, u \in Callers : t # u /\ Inside(t) => pc'[u] = pc[u]
          /\ \A t \in Callers :
                pc[t] = "swapchain" /\ pc'[t] = "fence" => frame' = current_frame
          /\ \A t \in Callers :
                pc[t] = "rotate" /\ pc'[t] = "return" =>
                   current_frame' = (frame + 1) % MAX_FRAMES_IN_FLIGHT
          /\ (\A t \in Callers : ~(pc[t] = "rotate" /\ pc'[t] = "return")) =>
                current_frame' = current_frame]_vars

\* A call records into slot 1, the slot an earlier call rotated to after it had
\* used slot 0, while the other caller waits for the mutex.
C21_Witness ==
    /\ \E t, u \in Callers :
          /\ t # u
          /\ modify = t
          /\ pc[t] = "task"
          /\ pc[u] = "idle"
    /\ frame = 1
    /\ current_frame = 1
    /\ 0 \in used


\* ------------------------------------------------------------------ C22
\* The step runs the accessors of a node, or a task body.
RunsUserCode ==
    \E t \in Callers :
       \/ pc[t] = "node" /\ pc'[t] = "derive"
       \/ pc[t] = "task" /\ pc'[t] # "task"

\* C22: render() never holds the mutex of the device's resource table while an
\* accessor or a task body runs. The mutex is free at every position from the
\* head of a node to the end of its body, before and after the step that runs
\* the accessors or the body; it is held only inside the blocks that take it
\* (swapchain read, address-table snapshot, size lookup, submit, present,
\* rotation); and it is taken only by the holder of the graph's mutex, which is
\* never taken by a holder of the table's mutex.
C22_TableMutexNeverSpansUserCode ==
    /\ [](\A t \in Callers :
            /\ pc[t] \in {"node", "barriers", "task"} => device_resources = "free"
            /\ device_resources = t =>
                  /\ modify = t
                  /\ pc[t] \in {"swapchain", "begin", "derive", "submit", "present", "rotate"})
    /\ [][/\ RunsUserCode => device_resources = "free" /\ device_resources' = "free"
          /\ \A t \in Callers :
                /\ device_resources # t /\ device_resources' = t =>
                      modify = t /\ modify' = t
                /\ modify # t /\ modify' = t =>
                      device_resources # t /\ device_resources' # t]_vars

\* The body of the second task is about to run: the size of a buffer of this
\* task was read under the table's mutex, which is free again.
C22_Witness ==
    /\ \E t \in Callers : pc[t] = "task" /\ modify = t
    /\ node = 2
    /\ \E i \in DOMAIN qualifiers : qualifiers[i].kind = "Buffer"
    /\ device_resources = "free"


\* ------------------------------------------------------------------ C23
\* The accessor calls of the frame for the descriptors of task k.
ResolvedOf(k) == {i \in Resolved : log[i].task = k}

\* The accessors of task k have been called in this frame.
AccessorsCalled(k) ==
    \/ k < node
    \/ k = node /\ \E t \in Callers : pc[t] \in {"derive", "barriers", "task"}
    \/ FrameRecorded

PipelineStageFlags ==
    {"ALL_COMMANDS", "TRANSFER", "EARLY_FRAGMENT_TESTS", "LATE_FRAGMENT_TESTS",
     "ALL_GRAPHICS", "COMPUTE_SHADER", "VERTEX_SHADER", "FRAGMENT_SHADER",
     "COLOR_ATTACHMENT_OUTPUT", "HOST"}
AccessFlags == {"READ", "WRITE"}
ImageLayouts ==
    {"Undefined", "Present", "TransferDstOptimal", "TransferSrcOptimal",
     "AttachmentOptimal", "ReadOnlyOptimal", "General"}

\* Every variant has a stage mask, a permission and (images) a layout; None is
\* the only variant with the empty mask, with the empty permission, with layout
\* Undefined; variants of one name have the same mask and the same permission.
MappingsTotalAndNoneAlone ==
    /\ \A a \in ImageAccess :
          /\ ImageAccessToPipelineStage(a) \in SUBSET PipelineStageFlags
          /\ ImageAccessToAccess(a) \in SUBSET AccessFlags
          /\ ImageAccessToImageLayout(a) \in ImageLayouts
          /\ ImageAccessToPipelineStage(a) = {} <=> a = "None"
          /\ ImageAccessToAccess(a) = {} <=> a = "None"
          /\ ImageAccessToImageLayout(a) = "Undefined" <=> a = "None"
    /\ \A a \in BufferAccess :
          /\ BufferAccessToPipelineStage(a) \in SUBSET PipelineStageFlags
          /\ BufferAccessToAccess(a) \in SUBSET AccessFlags
          /\ BufferAccessToPipelineStage(a) = {} <=> a = "None"
          /\ BufferAccessToAccess(a) = {} <=> a = "None"
    /\ \A a \in ImageAccess \cap BufferAccess :
          /\ ImageAccessToPipelineStage(a) = BufferAccessToPipelineStage(a)
          /\ ImageAccessToAccess(a) = BufferAccessToAccess(a)

\* C24: the access mappings are total, None alone maps to the empty mask, the
\* empty permission and layout Undefined, same-named variants agree, and an
\* emitted barrier has the empty src_stage exactly when no earlier descriptor of
\* the frame resolved to its resource. The last part fails: a descriptor may
\* request the access None, and the next barrier on its resource then has the
\* empty src_stage although the resource was touched.
C24_EmptySourceIffUntouched ==
    /\ MappingsTotalAndNoneAlone
    /\ \A i \in Resolved : \A jn \in EmittedFor(i) :
          log[jn[1]].barrier.src_stage = {} <=> EarlierOn(i) = {}

====
